---- MODULE Spec2Model ----
(***************************************************************************)
(* Model of tools/bump_version.py: the version bump workflow of qtlogger.  *)
(*                                                                         *)
(* Text (file contents, command lines, captured output) is a sequence of   *)
(* tokens.  A token is one character, except that the fixed label          *)
(* "#define QTLOGGER_VERSION " and other fixed words are single tokens.    *)
(***************************************************************************)
EXTENDS Integers, Sequences, FiniteSets, TLC

(***************************************************************************)
(* Text helpers                                                            *)
(***************************************************************************)

\* The literal prefix of the regular expressions of lines 26 and 39,
\* including its trailing blank.
Label == "#define QTLOGGER_VERSION "

DigitChars == <<"0", "1", "2", "3", "4", "5", "6", "7", "8", "9">>

DigitValues == [c \in {DigitChars[k] : k \in 1..10} |->
                    (CHOOSE k \in 1..10 : DigitChars[k] = c) - 1]

\* \d of the regular expressions.
IsDigit(c) == c \in DOMAIN DigitValues

DigitVal(c) == DigitValues[c]

\* int(text) of line 30: decimal value of a run of digits (leading zeros allowed).
RECURSIVE ParseInt(_)
ParseInt(s) ==
    IF s = <<>> THEN 0
    ELSE ParseInt(SubSeq(s, 1, Len(s) - 1)) * 10 + DigitVal(s[Len(s)])

\* str(n) as used by the f-strings of lines 40, 73 and 86: decimal, no padding.
RECURSIVE FormatInt(_)
FormatInt(n) ==
    IF n < 10 THEN <<DigitChars[n + 1]>>
    ELSE FormatInt(n \div 10) \o <<DigitChars[(n % 10) + 1]>>

\* f"{major}.{minor}.{patch}" (lines 40, 73, 86).
FormatTriple(major, minor, patch) ==
    FormatInt(major) \o <<".">> \o FormatInt(minor) \o <<".">> \o FormatInt(patch)

\* Length of the longest run of digits of s that starts at position i (greedy \d+).
RECURSIVE DigitRun(_, _)
DigitRun(s, i) ==
    IF i >= 1 /\ i <= Len(s) /\ IsDigit(s[i]) THEN 1 + DigitRun(s, i + 1) ELSE 0

CharAt(s, i) == IF i >= 1 /\ i <= Len(s) THEN s[i] ELSE "<eof>"

NoMatch == [end |-> 0, g1 |-> <<>>, g2 |-> <<>>, g3 |-> <<>>]

\* Variant of MatchAt: the pattern lacks its third component.
MatchAtTwoParts(s, i) ==
    IF CharAt(s, i) # Label THEN NoMatch
    ELSE LET a  == DigitRun(s, i + 1)
             d1 == i + 1 + a
         IN  IF a = 0 \/ CharAt(s, d1) # "." THEN NoMatch
             ELSE LET b == DigitRun(s, d1 + 1)
                  IN  IF b = 0 THEN NoMatch
                      ELSE [end |-> d1 + b,
                            g1  |-> SubSeq(s, i + 1, d1 - 1),
                            g2  |-> SubSeq(s, d1 + 1, d1 + b),
                            g3  |-> <<"0">>]

\* A match of  #define QTLOGGER_VERSION (\d+)\.(\d+)\.(\d+)  starting at position
\* i of s: the three groups and the position of the last matched token; "end" is
\* 0 when the pattern does not match at i.
MatchAt(s, i) ==
    IF CharAt(s, i) # Label THEN NoMatch
    ELSE LET a  == DigitRun(s, i + 1)
             d1 == i + 1 + a
         IN  IF a = 0 \/ CharAt(s, d1) # "." THEN NoMatch
             ELSE LET b  == DigitRun(s, d1 + 1)
                      d2 == d1 + 1 + b
                  IN  IF b = 0 \/ CharAt(s, d2) # "." THEN NoMatch
                      ELSE LET c == DigitRun(s, d2 + 1)
                           IN  IF c = 0 THEN NoMatch
                               ELSE [end |-> d2 + c,
                                     g1  |-> SubSeq(s, i + 1, d1 - 1),
                                     g2  |-> SubSeq(s, d1 + 1, d2 - 1),
                                     g3  |-> SubSeq(s, d2 + 1, d2 + c)]

\* The leftmost position from i on at which the pattern matches, 0 if none.
RECURSIVE SearchFrom(_, _)
SearchFrom(s, i) ==
    IF i > Len(s) THEN 0
    ELSE IF MatchAt(s, i).end # 0 THEN i
    ELSE SearchFrom(s, i + 1)

\* re.search (line 26): the leftmost position at which the pattern matches, 0 if none.
SearchVersion(s) == SearchFrom(s, 1)

\* Variant of SubVersionFrom: only the first match is replaced (count=1).
RECURSIVE SubVersionFirstOnly(_, _, _)
SubVersionFirstOnly(s, i, repl) ==
    IF i > Len(s) THEN <<>>
    ELSE LET e == MatchAt(s, i).end
         IN  IF e # 0
             THEN repl \o SubSeq(s, e + 1, Len(s))
             ELSE <<s[i]>> \o SubVersionFirstOnly(s, i + 1, repl)

\* re.sub (lines 38-42) from position i on: every non-overlapping match, left to
\* right, is replaced by repl; all other tokens are copied.
RECURSIVE SubVersionFrom(_, _, _)
SubVersionFrom(s, i, repl) ==
    IF i > Len(s) THEN <<>>
    ELSE LET e == MatchAt(s, i).end
         IN  IF e # 0
             THEN repl \o SubVersionFrom(s, e + 1, repl)
             ELSE <<s[i]>> \o SubVersionFrom(s, i + 1, repl)

\* The triple int() makes of the groups of the match at position i (line 30).
GroupsAt(content, i) ==
    LET m == MatchAt(content, i)
    IN  [ok    |-> TRUE,
         major |-> ParseInt(m.g1),
         minor |-> ParseInt(m.g2),
         patch |-> ParseInt(m.g3)]

\* Variant of ParseVersion: a file without a match reads as 0.0.0.
ParseVersionLenient(content) ==
    LET i == SearchVersion(content)
    IN  IF i = 0
        THEN [ok |-> TRUE, major |-> 0, minor |-> 0, patch |-> 0]
        ELSE GroupsAt(content, i)

\* read_current_version applied to a file content: the triple, or the error raised.
ParseVersion(content) ==
    LET i == SearchVersion(content)
    IN  IF i = 0
        THEN [ok |-> FALSE, major |-> 0, minor |-> 0, patch |-> 0]
        ELSE GroupsAt(content, i)

\* Variant of RewriteVersion: the replacement text lacks the label.
RewriteVersionNoLabel(content, major, minor, patch) ==
    SubVersionFrom(content, 1, FormatTriple(major, minor, patch))

\* The content write_version stores for (major, minor, patch): new_content of line 38.
RewriteVersion(content, major, minor, patch) ==
    SubVersionFrom(content, 1, <<Label>> \o FormatTriple(major, minor, patch))

(***************************************************************************)
(* Bounds and the inputs drawn from them                                   *)
(***************************************************************************)

\* Version components of the initial file range over 0..MaxComp and 9 (so
\* that a bump carries into a second digit).
MaxComp == 1

CompValues == (0..MaxComp) \cup {9}

VersionLine(a, b, c) == <<Label>> \o FormatTriple(a, b, c)

\* Text in front of the first well-formed version line: nothing, a comment
\* marker, or a truncated occurrence of the label.
Prefixes == { <<>>, <<"/", "/", " ">>, <<Label, "1", ".", "2", "\n">> }

\* Text behind it: end of line, a fourth component, or a second occurrence
\* (written with leading zeros).
Suffixes == { <<"\n">>,
              <<".", "4", "\n">>,
              <<"\n", "/", "/", " ", Label, "0", "7", ".", "7", ".", "7", "\n">> }

WellFormedFiles ==
    { pre \o VersionLine(a, b, c) \o post :
        pre \in Prefixes, post \in Suffixes,
        a \in CompValues, b \in CompValues, c \in CompValues }

\* Files the pattern matches with leading zeros or two digits in the first line.
PaddedFiles ==
    { <<Label, "0", "1", ".", "0", "0", ".", "0", "9", "\n">>,
      <<Label, "1", "0", ".", "9", "9", ".", "1", "9", "\n">> }

\* Files without any match of the pattern.
MalformedFiles ==
    { <<>>,
      <<"/", "/", " ", "\n">>,
      <<Label, "1", ".", "2", "\n">>,
      <<Label, "v", "1", ".", "2", ".", "3", "\n">>,
      <<"1", ".", "2", ".", "3", "\n">> }

BasicFile == VersionLine(0, 0, 0) \o <<"\n">>

Files == WellFormedFiles \cup PaddedFiles \cup MalformedFiles

\* sys.argv as argparse sees it: the three flags, -h/--help, and whether an
\* argument argparse rejects is present.
Argvs == [major : BOOLEAN, minor : BOOLEAN, patch : BOOLEAN,
          help : BOOLEAN, bad : BOOLEAN]

(***************************************************************************)
(* Commands and their results                                              *)
(***************************************************************************)

\* ' '.join(cmd) of line 49; cmd is a sequence of arguments, each a text.
RECURSIVE Join(_)
Join(cmd) ==
    IF cmd = <<>> THEN <<>>
    ELSE IF Len(cmd) = 1 THEN cmd[1]
    ELSE cmd[1] \o <<" ">> \o Join(Tail(cmd))

IsBlank(c) == c \in {" ", "\n", "\t"}

\* str.strip() of line 94.
RECURSIVE Strip(_)
Strip(s) ==
    IF s = <<>> THEN <<>>
    ELSE IF IsBlank(s[1]) THEN Strip(Tail(s))
    ELSE IF IsBlank(s[Len(s)]) THEN Strip(SubSeq(s, 1, Len(s) - 1))
    ELSE s

\* subprocess.run results (line 50) of a command that is not the branch query:
\* success with and without captured stdout, failure with and without stderr.
SuccessResults ==
    { [returncode |-> 0, stdout |-> <<>>, stderr |-> <<>>],
      [returncode |-> 0, stdout |-> <<"o", "\n">>, stderr |-> <<"w", "\n">>] }

FailureResults ==
    { [returncode |-> 1, stdout |-> <<>>, stderr |-> <<"e", "\n">>],
      [returncode |-> 128, stdout |-> <<"o", "\n">>, stderr |-> <<>>] }

NoResult == [returncode |-> 0, stdout |-> <<>>, stderr |-> <<>>]

\* Variant of RunCommandPrints: the captured stdout is printed whatever the
\* return code is.
RunCommandPrintsStdoutAlways(cmd, r) ==
    <<  <<"Running: ">> \o Join(cmd) >>
    \o (IF r.stdout # <<>> THEN << r.stdout >> ELSE <<>>)
    \o (IF r.returncode # 0 THEN << <<"Error: ">> \o r.stderr >> ELSE <<>>)

\* Variant of RunCommandPrints: the error line leaves the captured stderr out.
RunCommandPrintsNoStderr(cmd, r) ==
    <<  <<"Running: ">> \o Join(cmd) >>
    \o (IF r.returncode # 0 THEN << <<"Error: ">> >>
        ELSE IF r.stdout # <<>> THEN << r.stdout >>
        ELSE <<>>)

\* The lines run_command prints for cmd when subprocess.run returned r
\* (lines 49, 51-52, 54-55), one entry per print call.
RunCommandPrints(cmd, r) ==
    <<  <<"Running: ">> \o Join(cmd) >>
    \o (IF r.returncode # 0 THEN << <<"Error: ">> \o r.stderr >>
        ELSE IF r.stdout # <<>> THEN << r.stdout >>
        ELSE <<>>)

\* Variant of RunCommandExits: the return code is ignored.
RunCommandNeverExits(r) == FALSE

\* Whether run_command ends the process (lines 51-53).
RunCommandExits(r) == r.returncode # 0

\* The command lines main builds.
QueryCmd == << <<"git">>, <<"rev-parse">>, <<"--abbrev-ref">>, <<"HEAD">> >>
GenCmd == << <<"python3">>, <<"gen_qtlogger.h.py">> >>
CheckoutNewCmd(name) == << <<"git">>, <<"checkout">>, <<"-b">>, name >>
AddCmd == << <<"git">>, <<"add">>, <<"src/qtlogger/version.h">>, <<"qtlogger.h">> >>
CommitCmd(msg) == << <<"git">>, <<"commit">>, <<"-m">>, msg >>
TagCmd(name) == << <<"git">>, <<"tag">>, name >>
CheckoutCmd(name) == << <<"git">>, <<"checkout">>, name >>

\* Variant of TagName: the tag is named after the bare version.
TagNameBare(version) == version

\* branch_name (line 107), commit_message (line 116) and tag_name (line 121).
BranchName(version) == <<"v">> \o version
CommitMessage(version) == <<"Bump version to ">> \o version
TagName(version) == <<"v">> \o version

\* Variant of BumpVersion: the triple is left as it was read.
BumpVersionNone(args, maj, mnr, pat) == <<maj, mnr, pat>>

\* Variant of BumpVersion: a minor bump keeps the patch component.
BumpVersionKeepsPatch(args, maj, mnr, pat) ==
    IF args.major THEN <<maj + 1, 0, 0>>
    ELSE IF args.minor THEN <<maj, mnr + 1, pat>>
    ELSE IF args.patch THEN <<maj, mnr, pat + 1>>
    ELSE <<maj, mnr, pat>>

\* The new triple of lines 76-84.
BumpVersion(args, maj, mnr, pat) ==
    IF args.major THEN <<maj + 1, 0, 0>>
    ELSE IF args.minor THEN <<maj, mnr + 1, 0>>
    ELSE IF args.patch THEN <<maj, mnr, pat + 1>>
    ELSE <<maj, mnr, pat>>

\* options_count of line 67.
OptionsCount(args) ==
    (IF args.major THEN 1 ELSE 0) + (IF args.minor THEN 1 ELSE 0)
        + (IF args.patch THEN 1 ELSE 0)

(***************************************************************************)
(* State                                                                   *)
(***************************************************************************)
VARIABLES
    argv,            \* the command line
    pc,              \* the step of main that runs next (or that failed)
    exit_code,       \* <<>> while running, <<status>> once the process ended
    steps,           \* history: the steps started so far, in order
    major, minor, patch,   \* the locals of main (lines 72-84)
    old_version,     \* history: the triple returned by read_current_version
    new_version,     \* the local new_version (line 86)
    current_branch,  \* the local current_branch (line 94)
    result,          \* the last result of subprocess.run (line 50)
    returned,        \* the last result run_command returned to main (line 56)
    out,             \* the lines printed to stdout so far
    run,             \* history: how many times the script has been started
    version_file,    \* content of src/qtlogger/version.h in the working tree
    qtlogger_h,      \* the version.h content qtlogger.h was generated from
    HEAD,            \* [ref |-> branch name or <<>> if detached, commit |-> id]
    branches, tags,  \* name -> commit id
    index,           \* staged content of the two files
    commits          \* commit id -> [parent, version_file, qtlogger_h, message]

prog == <<argv, pc, exit_code, steps, major, minor, patch, old_version,
          new_version, current_branch, result, returned, out,
          run>>
files == <<version_file, qtlogger_h>>
repo == <<HEAD, branches, tags, index, commits>>
vars == <<prog, files, repo>>

Running == exit_code = <<>>

MainBranch == <<"main">>

\* A name that is already taken in some initial repositories: the name a major
\* bump of 0.x.y produces.
TakenName == <<"v">> \o FormatTriple(1, 0, 0)

RepoSetups ==
    { [detached |-> d, branch_taken |-> b, tag_taken |-> t] :
        d \in BOOLEAN, b \in BOOLEAN, t \in BOOLEAN }

DefaultSetup == [detached |-> FALSE, branch_taken |-> FALSE, tag_taken |-> FALSE]

Init ==
    /\ argv \in Argvs
    /\ pc = "parse"
    /\ exit_code = <<>>
    /\ steps = <<>>
    /\ major = 0 /\ minor = 0 /\ patch = 0
    /\ old_version = <<>>
    /\ new_version = <<>>
    /\ current_branch = <<>>
    /\ result = NoResult
    /\ returned = NoResult
    /\ out = <<>>
    /\ run = 1
    /\ version_file \in Files
    /\ qtlogger_h = version_file
    /\ \E setup \in RepoSetups :
        /\ setup = DefaultSetup \/ version_file = BasicFile
        /\ HEAD = [ref |-> IF setup.detached THEN <<>> ELSE MainBranch, commit |-> 1]
        /\ branches = IF setup.branch_taken
                      THEN (MainBranch :> 1) @@ (TakenName :> 1)
                      ELSE (MainBranch :> 1)
        /\ tags = IF setup.tag_taken THEN (TakenName :> 1) ELSE << >>
    /\ index = [version_file |-> version_file, qtlogger_h |-> qtlogger_h]
    /\ commits = << [parent |-> 0, version_file |-> version_file,
                     qtlogger_h |-> qtlogger_h, message |-> <<"init">>] >>

(***************************************************************************)
(* The version-control commands, as main uses them                         *)
(***************************************************************************)

\* stdout of  git rev-parse --abbrev-ref HEAD : the branch name, or the
\* literal HEAD when no branch is checked out.
QueryOutput == (IF HEAD.ref = <<>> THEN <<"HEAD">> ELSE HEAD.ref) \o <<"\n">>

\* Variant of CanCreateBranch: an existing branch of that name is replaced.
CanCreateBranchForce(name) == TRUE

\* git checkout -b name  refuses a name that is already a branch.
CanCreateBranch(name) == name \notin DOMAIN branches

\* git commit  refuses to record a tree equal to that of the current commit.
CanCommit ==
    \/ index.version_file # commits[HEAD.commit].version_file
    \/ index.qtlogger_h # commits[HEAD.commit].qtlogger_h

\* git tag name  refuses a name that is already a tag.
CanCreateTag(name) == name \notin DOMAIN tags

\* git checkout name  accepts the literal HEAD (and then switches nothing) and
\* the name of a branch.
CanCheckout(name) == name = <<"HEAD">> \/ name \in DOMAIN branches

\* Variant of CheckoutHead: the checkout switches nothing.
CheckoutHeadStays(name) == HEAD

\* HEAD after a successful  git checkout name.
CheckoutHead(name) ==
    IF name = <<"HEAD">> THEN HEAD
    ELSE [ref |-> name, commit |-> branches[name]]

\* Variant of NewBranchHead: the branch is created without being checked out.
NewBranchHeadStays(name) == HEAD

\* HEAD after a successful  git checkout -b name : on the new branch, at the
\* commit it was on.
NewBranchHead(name) == [ref |-> name, commit |-> HEAD.commit]

\* The results subprocess.run can return for a command that can succeed or not.
Results(canSucceed) ==
    IF canSucceed THEN SuccessResults \cup FailureResults ELSE FailureResults

(***************************************************************************)
(* The steps of main                                                       *)
(***************************************************************************)

Start(step) ==
    /\ Running
    /\ pc = step
    /\ steps' = Append(steps, step)
    /\ run' = run

\* Variant of Exit: the failing step is tried again.
ExitRetries(code) ==
    /\ exit_code' = exit_code
    /\ pc' = pc

\* Variant of Exit: the process always ends with status 0.
ExitStatusZero(code) ==
    /\ exit_code' = <<0>>
    /\ pc' = pc

\* sys.exit(code), parser.error, or an uncaught exception: the process ends
\* where it is.
Exit(code) ==
    /\ exit_code' = <<code>>
    /\ pc' = pc

\* Variant of Goto: the query of the current branch is skipped.
GotoSkipsQuery(step) ==
    /\ exit_code' = exit_code
    /\ pc' = IF step = "query" THEN "write" ELSE step

Goto(step) ==
    /\ exit_code' = exit_code
    /\ pc' = step

\* Variant of ParseOutcomes: only more than one flag is rejected.
ParseOutcomesAllowsNone(args) ==
    IF args.help /\ args.bad THEN {"help", "error"}
    ELSE IF args.help THEN {"help"}
    ELSE IF args.bad THEN {"error"}
    ELSE IF OptionsCount(args) > 1 THEN {"error"}
    ELSE {"ok"}

\* What parser.parse_args() and the check of lines 67-69 do with the command
\* line: print the help and exit 0, report a usage error and exit 2, or go on.
\* argparse acts on -h where it stands, so with a rejected argument as well
\* either comes first.
ParseOutcomes(args) ==
    IF args.help /\ args.bad THEN {"help", "error"}
    ELSE IF args.help THEN {"help"}
    ELSE IF args.bad THEN {"error"}
    ELSE IF OptionsCount(args) # 1 THEN {"error"}
    ELSE {"ok"}

\* Lines 60-69.
ParseArgs ==
    /\ Start("parse")
    /\ \E o \in ParseOutcomes(argv) :
        \/ /\ o = "help"
           /\ out' = Append(out, <<"usage: bump_version.py [-h] [-x] [-y] [-z]">>)
           /\ Exit(0)
        \/ /\ o = "error"
           /\ out' = out
           /\ Exit(2)
        \/ /\ o = "ok"
           /\ out' = out
           /\ Goto("read")
    /\ UNCHANGED <<argv, major, minor, patch, old_version, new_version,
                   current_branch, result, returned, files, repo>>

\* Lines 71-73 with read_current_version (lines 21-30).
ReadVersion ==
    /\ Start("read")
    /\ \E readable \in BOOLEAN :
        LET v == ParseVersion(version_file)
        IN  IF readable /\ v.ok
            THEN /\ major' = v.major
                 /\ minor' = v.minor
                 /\ patch' = v.patch
                 /\ old_version' = <<v.major, v.minor, v.patch>>
                 /\ out' = Append(out, <<"Current version: ">>
                                        \o FormatTriple(v.major, v.minor, v.patch))
                 /\ Goto("compute")
            ELSE /\ UNCHANGED <<major, minor, patch, old_version, out>>
                 /\ Exit(1)
    /\ UNCHANGED <<argv, new_version, current_branch, result, returned, files, repo>>

\* Lines 75-87.
ComputeVersion ==
    /\ Start("compute")
    /\ LET t == BumpVersion(argv, major, minor, patch)
       IN  /\ major' = t[1]
           /\ minor' = t[2]
           /\ patch' = t[3]
           /\ new_version' = FormatTriple(t[1], t[2], t[3])
           /\ out' = Append(out, <<"New version: ">> \o FormatTriple(t[1], t[2], t[3]))
    /\ Goto("query")
    /\ UNCHANGED <<argv, old_version, current_branch, result, returned, files, repo>>

\* run_command(cmd) when subprocess.run returns r, followed on success by the
\* print of main that reports the step.
RunCommand(cmd, r, report, next) ==
    /\ result' = r
    /\ IF RunCommandExits(r)
       THEN /\ out' = out \o RunCommandPrints(cmd, r)
            /\ returned' = returned
            /\ Exit(1)
       ELSE /\ out' = out \o RunCommandPrints(cmd, r) \o <<report>>
            /\ returned' = r
            /\ Goto(next)

\* Lines 92-95.
QueryBranch ==
    /\ Start("query")
    /\ \E r \in {[returncode |-> 0, stdout |-> QueryOutput, stderr |-> <<>>]}
                    \cup FailureResults :
        /\ RunCommand(QueryCmd, r, <<"Current branch: ">> \o Strip(r.stdout), "write")
        /\ current_branch' = IF RunCommandExits(r) THEN current_branch
                             ELSE Strip(r.stdout)
    /\ UNCHANGED <<argv, major, minor, patch, old_version, new_version, files, repo>>

\* Lines 97-99 with write_version (lines 33-45).  The file may be unreadable
\* or unwritable (it is then left as it is), or the write may fail after
\* open(..., "w") has truncated it.
WriteVersion ==
    /\ Start("write")
    /\ \E io \in {"ok", "unreadable", "unwritable", "truncated"} :
        IF io = "ok"
        THEN /\ version_file' = RewriteVersion(version_file, major, minor, patch)
             /\ out' = Append(out, <<"Updated version.h to ">> \o new_version)
             /\ Goto("regen")
        ELSE /\ version_file' = IF io = "truncated" THEN <<>> ELSE version_file
             /\ out' = out
             /\ Exit(1)
    /\ UNCHANGED <<argv, major, minor, patch, old_version, new_version,
                   current_branch, result, returned, qtlogger_h, repo>>

\* Lines 101-104.
Regenerate ==
    /\ Start("regen")
    /\ \E r \in Results(TRUE) :
        /\ RunCommand(GenCmd, r, <<"Generated qtlogger.h">>, "branch")
        /\ qtlogger_h' = IF RunCommandExits(r) THEN qtlogger_h ELSE version_file
    /\ UNCHANGED <<argv, major, minor, patch, old_version, new_version,
                   current_branch, version_file, repo>>

\* Lines 106-109.
CreateBranch ==
    /\ Start("branch")
    /\ \E r \in Results(CanCreateBranch(BranchName(new_version))) :
        /\ RunCommand(CheckoutNewCmd(BranchName(new_version)), r,
                      <<"Created and switched to branch: ">> \o BranchName(new_version),
                      "add")
        /\ IF RunCommandExits(r)
           THEN UNCHANGED <<HEAD, branches>>
           ELSE /\ branches' = (BranchName(new_version) :> HEAD.commit) @@ branches
                /\ HEAD' = NewBranchHead(BranchName(new_version))
    /\ UNCHANGED <<argv, major, minor, patch, old_version, new_version,
                   current_branch, files, tags, index, commits>>

\* Lines 111-113.
StageFiles ==
    /\ Start("add")
    /\ \E r \in Results(TRUE) :
        /\ RunCommand(AddCmd, r, <<"Added files to git staging area">>, "commit")
        /\ index' = IF RunCommandExits(r) THEN index
                    ELSE [version_file |-> version_file, qtlogger_h |-> qtlogger_h]
    /\ UNCHANGED <<argv, major, minor, patch, old_version, new_version,
                   current_branch, files, HEAD, branches, tags, commits>>

\* Lines 115-118.
Commit ==
    /\ Start("commit")
    /\ \E r \in Results(CanCommit) :
        /\ RunCommand(CommitCmd(CommitMessage(new_version)), r,
                      <<"Committed with message: ">> \o CommitMessage(new_version),
                      "tag")
        /\ IF RunCommandExits(r)
           THEN UNCHANGED <<HEAD, branches, commits>>
           ELSE /\ commits' = Append(commits,
                                [parent       |-> HEAD.commit,
                                 version_file |-> index.version_file,
                                 qtlogger_h   |-> index.qtlogger_h,
                                 message      |-> CommitMessage(new_version)])
                /\ HEAD' = [HEAD EXCEPT !.commit = Len(commits) + 1]
                /\ branches' = IF HEAD.ref = <<>> THEN branches
                               ELSE [branches EXCEPT ![HEAD.ref] = Len(commits) + 1]
    /\ UNCHANGED <<argv, major, minor, patch, old_version, new_version,
                   current_branch, files, tags, index>>

\* Lines 120-123.
CreateTag ==
    /\ Start("tag")
    /\ \E r \in Results(CanCreateTag(TagName(new_version))) :
        /\ RunCommand(TagCmd(TagName(new_version)), r,
                      <<"Created tag: ">> \o TagName(new_version), "checkout")
        /\ tags' = IF RunCommandExits(r) THEN tags
                   ELSE (TagName(new_version) :> HEAD.commit) @@ tags
    /\ UNCHANGED <<argv, major, minor, patch, old_version, new_version,
                   current_branch, files, HEAD, branches, index, commits>>

\* Lines 125-127.  Checking a branch out puts its committed files into the
\* working tree and the index.
CheckoutOriginal ==
    /\ Start("checkout")
    /\ \E r \in Results(CanCheckout(current_branch)) :
        /\ RunCommand(CheckoutCmd(current_branch), r,
                      <<"Switched back to branch: ">> \o current_branch, "report")
        /\ IF RunCommandExits(r)
           THEN UNCHANGED <<HEAD, index, files>>
           ELSE LET h == CheckoutHead(current_branch)
                IN  /\ HEAD' = h
                    /\ version_file' = commits[h.commit].version_file
                    /\ qtlogger_h' = commits[h.commit].qtlogger_h
                    /\ index' = [version_file |-> commits[h.commit].version_file,
                                 qtlogger_h   |-> commits[h.commit].qtlogger_h]
    /\ UNCHANGED <<argv, major, minor, patch, old_version, new_version,
                   current_branch, branches, tags, commits>>

\* Lines 129-131 and the return of main: the process ends with status 0.
Report ==
    /\ Start("report")
    /\ out' = out \o << <<"Version bump complete! New version: ">> \o new_version,
                        <<"Branch '">> \o BranchName(new_version) \o <<"' and tag '">>
                            \o TagName(new_version) \o <<"' have been created.">>,
                        <<"You are now back on branch '">> \o current_branch \o <<"'.">> >>
    /\ exit_code' = <<0>>
    /\ pc' = "done"
    /\ UNCHANGED <<argv, major, minor, patch, old_version, new_version,
                   current_branch, result, returned, files, repo>>

Next ==
    \/ ParseArgs
    \/ ReadVersion
    \/ ComputeVersion
    \/ QueryBranch
    \/ WriteVersion
    \/ Regenerate
    \/ CreateBranch
    \/ StageFiles
    \/ Commit
    \/ CreateTag
    \/ CheckoutOriginal
    \/ Report

Spec == Init /\ [][Next]_vars
(***************************************************************************)
(* Vocabulary of the properties                                            *)
(***************************************************************************)

\* The statements of main in program order; "done" follows the last of them.
StepOrder == <<"parse", "read", "compute", "query", "write", "regen", "branch",
               "add", "commit", "tag", "checkout", "report">>

Rank(step) ==
    IF step = "done" THEN Len(StepOrder) + 1
    ELSE CHOOSE i \in 1..Len(StepOrder) : StepOrder[i] = step

\* The process ended with a nonzero status while executing step.
FailedAt(step) == ~Running /\ exit_code # <<0>> /\ pc = step

\* The step has completed successfully.
Passed(step) == Rank(pc) > Rank(step)

\* The repository and the two files as they were when main started (the
\* working tree starts clean on commit 1).
FirstCommit == commits[1]

FilesUntouched ==
    /\ version_file = FirstCommit.version_file
    /\ qtlogger_h = FirstCommit.qtlogger_h

RepoUntouched ==
    /\ Len(commits) = 1
    /\ HEAD.commit = 1
    /\ HEAD.ref \in {<<>>, MainBranch}
    /\ \A b \in DOMAIN branches : branches[b] = 1
    /\ \A t \in DOMAIN tags : tags[t] = 1
    /\ index = [version_file |-> FirstCommit.version_file,
                qtlogger_h   |-> FirstCommit.qtlogger_h]

\* No external command has been run.
NoCommandRun ==
    /\ result = NoResult
    /\ \A i \in 1..Len(out) : out[i][1] # "Running: "

\* The checkout the run started from, as the branch query captured it.
OnOriginalCheckout ==
    IF current_branch = <<"HEAD">>
    THEN HEAD.ref = <<>> /\ HEAD.commit = 1
    ELSE HEAD.ref = current_branch

\* The triple the bump rule of the specification derives from the triple read.
ExpectedNew ==
    IF argv.major THEN <<old_version[1] + 1, 0, 0>>
    ELSE IF argv.minor THEN <<old_version[1], old_version[2] + 1, 0>>
    ELSE <<old_version[1], old_version[2], old_version[3] + 1>>

ExpectedText == FormatTriple(ExpectedNew[1], ExpectedNew[2], ExpectedNew[3])

(***************************************************************************)
(* Properties                                                              *)
(***************************************************************************)

\* C1: the steps run in the one fixed order read, branch query, write,
\* regenerate, create branch, stage, commit, tag, checkout: the steps started
\* so far are always an initial part of that order (so none runs twice and none
\* before its predecessors), a running process is at the step after the last
\* one started, a failed one stays at the step that failed, and the position
\* never moves backward.
C1_OrderInv ==
    /\ Len(steps) <= Len(StepOrder)
    /\ steps = SubSeq(StepOrder, 1, Len(steps))
    /\ Running => Rank(pc) = Len(steps) + 1
    /\ (~Running /\ pc # "done") => (steps # <<>> /\ pc = steps[Len(steps)])
    /\ pc = "done" => steps = StepOrder

C1_OrderStep ==
    /\ Rank(pc') >= Rank(pc)
    /\ Len(steps') <= Len(StepOrder)
    /\ steps' = SubSeq(StepOrder, 1, Len(steps'))
    /\ steps' # steps => (Running /\ steps' = Append(steps, pc))
    /\ Rank(pc') > Rank(pc) => (Rank(pc') = Rank(pc) + 1 /\ steps' = Append(steps, pc))

C1_FixedOrder == [](C1_OrderInv) /\ [][C1_OrderStep]_vars

C1_Witness == pc = "done" /\ steps = StepOrder /\ Len(commits) = 2

\* C2: when a step fails the process has ended with a nonzero status at that
\* step, what the earlier steps did is in place (rewritten file, regenerated
\* header, new branch checked out, staged files, commit, tag), nothing a later
\* step does has happened, and from then on nothing changes at all.
C2_EarlierEffectsKept ==
    \A k \in 1..Len(StepOrder) :
        FailedAt(StepOrder[k]) =>
            /\ k > Rank("write") =>
                  version_file = RewriteVersion(FirstCommit.version_file,
                                                major, minor, patch)
            /\ k > Rank("regen") => qtlogger_h = version_file
            /\ k > Rank("branch") =>
                  /\ HEAD.ref = BranchName(new_version)
                  /\ BranchName(new_version) \in DOMAIN branches
            /\ k > Rank("add") =>
                  index = [version_file |-> version_file, qtlogger_h |-> qtlogger_h]
            /\ k > Rank("commit") =>
                  /\ Len(commits) = 2
                  /\ commits[2].version_file = version_file
                  /\ commits[2].qtlogger_h = qtlogger_h
                  /\ branches[BranchName(new_version)] = 2
            /\ k > Rank("tag") =>
                  /\ TagName(new_version) \in DOMAIN tags
                  /\ tags[TagName(new_version)] = 2

C2_LaterEffectsAbsent ==
    \A k \in 1..Len(StepOrder) :
        FailedAt(StepOrder[k]) =>
            /\ steps = SubSeq(StepOrder, 1, k)
            /\ k < Rank("write") => version_file = FirstCommit.version_file
            /\ k <= Rank("regen") => qtlogger_h = FirstCommit.qtlogger_h
            /\ k <= Rank("branch") => HEAD.ref \in {<<>>, MainBranch}
            /\ k <= Rank("add") =>
                  index = [version_file |-> FirstCommit.version_file,
                           qtlogger_h   |-> FirstCommit.qtlogger_h]
            /\ k <= Rank("commit") =>
                  /\ Len(commits) = 1
                  /\ \A b \in DOMAIN branches : branches[b] = 1
            /\ k <= Rank("tag") => \A t \in DOMAIN tags : tags[t] = 1
            /\ (k > Rank("branch") /\ k <= Rank("checkout")) =>
                  HEAD.ref = BranchName(new_version)

C2_HaltIsFinal == ~Running => UNCHANGED vars

C2_FailureHalts ==
    /\ result.returncode # 0 => (FailedAt(pc) /\ exit_code = <<1>>)
    /\ (~Running /\ pc \notin {"parse", "done"}) => exit_code = <<1>>

C2_FailFastNoRollback ==
    /\ [](C2_FailureHalts /\ C2_EarlierEffectsKept /\ C2_LaterEffectsAbsent)
    /\ [][C2_HaltIsFinal]_vars

C2_Witness == FailedAt("tag") /\ Len(commits) = 2 /\ tags = << >>

\* C3: when the regeneration command exits nonzero the process has ended with
\* status 1, version.h holds the new version, no branch, commit or tag was
\* made, the checkout is the original one, and the last line printed is
\* "Error: " followed by the captured stderr of the regeneration command.
C3_RegenerationFailure ==
    FailedAt("regen") =>
        /\ exit_code = <<1>>
        /\ result.returncode # 0
        /\ ParseVersion(version_file) =
              [ok |-> TRUE, major |-> ExpectedNew[1], minor |-> ExpectedNew[2],
               patch |-> ExpectedNew[3]]
        /\ version_file # FirstCommit.version_file
        /\ RepoUntouched
        /\ BranchName(new_version) \in DOMAIN branches =>
              BranchName(new_version) = TakenName
        /\ OnOriginalCheckout
        /\ Len(out) >= 2
        /\ out[Len(out) - 1] = <<"Running: ">> \o Join(GenCmd)
        /\ out[Len(out)] = <<"Error: ">> \o result.stderr

C3_Witness ==
    /\ FailedAt("regen")
    /\ result.stderr # <<>>
    /\ ParseVersion(version_file).major = 10

\* The help text of argparse was printed (the only output of a process that
\* ends while parsing its arguments).
HelpPrinted == pc = "parse" /\ out # <<>>

NoSideEffect ==
    /\ pc = "parse"
    /\ Len(steps) <= 1
    /\ old_version = <<>>
    /\ FilesUntouched
    /\ RepoUntouched
    /\ NoCommandRun

\* C4 as stated: with zero, two or three of the flags the process ends with a
\* nonzero status before any side effect.
C4_Original ==
    OptionsCount(argv) # 1 =>
        /\ NoSideEffect
        /\ steps # <<>> => ~Running
        /\ ~Running => exit_code # <<0>>

\* C4 amended: with zero, two or three of the flags the process ends before any
\* side effect (version.h neither read nor written, no command run), with
\* status 2, unless -h/--help is given as well, when argparse may print the
\* help and end it with status 0.
C4_NotExactlyOneFlag ==
    OptionsCount(argv) # 1 =>
        /\ NoSideEffect
        /\ steps # <<>> => ~Running
        /\ ~Running => (exit_code = <<2>> \/ (exit_code = <<0>> /\ argv.help))
        /\ (~Running /\ ~argv.help) => exit_code = <<2>>

C4_Witness ==
    /\ ~Running
    /\ argv.major /\ argv.patch /\ ~argv.help /\ ~argv.bad
    /\ exit_code = <<2>>

\* C5: when version.h holds no match of the pattern, the run ends in the read
\* step with status 1, both files and the repository are as they were, and no
\* command was run.
C5_MalformedFile ==
    SearchVersion(FirstCommit.version_file) = 0 =>
        /\ pc \in {"parse", "read"}
        /\ "read" \in {steps[i] : i \in 1..Len(steps)} =>
              (FailedAt("read") /\ exit_code = <<1>>)
        /\ old_version = <<>>
        /\ FilesUntouched
        /\ RepoUntouched
        /\ NoCommandRun

C5_Witness ==
    /\ FailedAt("read")
    /\ version_file = <<Label, "1", ".", "2", "\n">>

\* C6: once the new version is computed the three locals hold (a+1,0,0) for a
\* major bump of the triple (a,b,c) read from the file, (a,b+1,0) for a minor
\* bump and (a,b,c+1) for a patch bump.
C6_BumpRule ==
    Passed("compute") =>
        /\ OptionsCount(argv) = 1
        /\ Len(old_version) = 3
        /\ \A i \in 1..3 : old_version[i] >= 0
        /\ ParseVersion(FirstCommit.version_file) =
              [ok |-> TRUE, major |-> old_version[1], minor |-> old_version[2],
               patch |-> old_version[3]]
        /\ argv.major =>
              <<major, minor, patch>> = <<old_version[1] + 1, 0, 0>>
        /\ argv.minor =>
              <<major, minor, patch>> = <<old_version[1], old_version[2] + 1, 0>>
        /\ argv.patch =>
              <<major, minor, patch>> =
                  <<old_version[1], old_version[2], old_version[3] + 1>>

C6_Witness ==
    /\ pc = "query"
    /\ argv.minor
    /\ old_version = <<9, 9, 9>>
    /\ <<major, minor, patch>> = <<9, 10, 0>>

\* C7 as stated: at Done the checkout is the one the run started from, a
\* detached HEAD included.
C7_RestoresOriginal == pc = "done" => OnOriginalCheckout

\* The first match of the pattern in content, as text.
FirstVersionLine(content) ==
    SubSeq(content, SearchVersion(content),
           MatchAt(content, SearchVersion(content)).end)

\* C8: the line written to version.h, the branch name, the commit message and
\* the tag name all carry the text a.b.c of the one new triple (a,b,c) the bump
\* rule derives from the triple read, which differs from the text of the
\* triple read; the tag and the branch have the same name.
C8_OneNewTriple ==
    /\ Passed("compute") =>
          /\ new_version = ExpectedText
          /\ new_version # FormatTriple(old_version[1], old_version[2], old_version[3])
    /\ (Passed("write") /\ pc \notin {"report", "done"}) =>
          /\ SearchVersion(version_file) # 0
          /\ FirstVersionLine(version_file) = <<Label>> \o ExpectedText
    /\ Passed("branch") =>
          /\ (<<"v">> \o ExpectedText) \in DOMAIN branches
          /\ pc \notin {"report", "done"} => HEAD.ref = <<"v">> \o ExpectedText
    /\ Passed("commit") =>
          /\ commits[2].message = <<"Bump version to ">> \o ExpectedText
          /\ FirstVersionLine(commits[2].version_file) = <<Label>> \o ExpectedText
          /\ branches[<<"v">> \o ExpectedText] = 2
    /\ Passed("tag") =>
          /\ (<<"v">> \o ExpectedText) \in DOMAIN tags
          /\ tags[<<"v">> \o ExpectedText] = 2
          /\ \E n \in DOMAIN tags \cap DOMAIN branches :
                tags[n] = 2 /\ branches[n] = 2

C8_Witness ==
    /\ pc = "done"
    /\ old_version = <<9, 1, 9>>
    /\ <<"v", "1", "0", ".", "0", ".", "0">> \in DOMAIN tags

\* C9 as stated: the exit status is 0 exactly when the run reached Done.
C9_Original == ~Running => (exit_code = <<0>> <=> pc = "done")

NoErrorLine == \A i \in 1..Len(out) : out[i][1] # "Error: "

\* C9 amended: the exit status is 0 exactly when the run reached Done, with
\* every step started once and no command having failed, or when argparse
\* printed the help for -h/--help; a usage error ends the process with status
\* 2, and a parse error, a file error or a failed command with status 1.
C9_ExitStatus ==
    ~Running =>
        /\ exit_code = <<0>> <=> (pc = "done" \/ HelpPrinted)
        /\ HelpPrinted => (argv.help /\ steps = <<"parse">>)
        /\ pc = "done" =>
              (steps = StepOrder /\ NoErrorLine /\ result.returncode = 0)
        /\ (pc = "parse" /\ ~HelpPrinted) => exit_code = <<2>>
        /\ pc \notin {"parse", "done"} => exit_code = <<1>>

C9_Witness == pc = "done" /\ exit_code = <<0>> /\ HEAD.ref = MainBranch

\* C10: after write_version(major, minor, patch), reading version.h the way
\* read_current_version does returns (major, minor, patch).
C10_RoundTrip ==
    (Passed("write") /\ pc \notin {"report", "done"}) =>
        ParseVersion(version_file) =
            [ok |-> TRUE, major |-> major, minor |-> minor, patch |-> patch]

C10_Witness ==
    /\ pc = "regen"
    /\ <<major, minor, patch>> = <<1, 10, 0>>
    /\ SearchVersion(version_file) > 1
    /\ version_file # FirstCommit.version_file

\* The texts between the matches of the pattern in s from position i on, in
\* order: one more than there are matches.
RECURSIVE Gaps(_, _)
Gaps(s, i) ==
    IF i > Len(s) THEN << <<>> >>
    ELSE LET e    == MatchAt(s, i).end
             rest == Gaps(s, IF e # 0 THEN e + 1 ELSE i + 1)
         IN  IF e # 0
             THEN << <<>> >> \o rest
             ELSE << <<s[i]>> \o Head(rest) >> \o Tail(rest)

\* The matches of the pattern in s from position i on, as texts, in order.
RECURSIVE Matches(_, _)
Matches(s, i) ==
    IF i > Len(s) THEN <<>>
    ELSE LET e == MatchAt(s, i).end
         IN  IF e # 0
             THEN <<SubSeq(s, i, e)>> \o Matches(s, e + 1)
             ELSE Matches(s, i + 1)

\* version.h holds what write_version stored (the write succeeded and the
\* original branch is not checked out again yet).
FileAsWritten == Passed("write") /\ pc \notin {"report", "done"}

\* C11 as stated: the written file is the old one with the first match alone
\* replaced by the new version line.
C11_Original ==
    FileAsWritten =>
        LET old == FirstCommit.version_file
            i   == SearchVersion(old)
        IN  version_file = SubSeq(old, 1, i - 1)
                            \o <<Label>> \o new_version
                            \o SubSeq(old, MatchAt(old, i).end + 1, Len(old))

\* C11 amended: write_version replaces every match of the pattern by the new
\* version line and leaves all text between, before and behind the matches
\* as it was.
C11_EveryMatchReplaced ==
    pc = "regen" =>
        /\ Gaps(version_file, 1) = Gaps(FirstCommit.version_file, 1)
        /\ Len(Matches(version_file, 1)) = Len(Matches(FirstCommit.version_file, 1))
        /\ \A k \in 1..Len(Matches(version_file, 1)) :
              Matches(version_file, 1)[k] = <<Label>> \o new_version

C11_Witness ==
    /\ pc = "regen"
    /\ Len(Matches(version_file, 1)) = 2
    /\ Len(Gaps(version_file, 1)[1]) > 0
    /\ new_version = <<"1", "0", ".", "0", ".", "0">>

(***************************************************************************)
(* The version store on its own: write_version and read_current_version    *)
(* applied to any file content, any number of times                        *)
(***************************************************************************)

\* The store is used at most MaxStoreOps times.
MaxStoreOps == 2

\* Components written: a one-digit and a two-digit one.
StoreValues == {0, 12}

StoreInit ==
    /\ argv = [major |-> FALSE, minor |-> FALSE, patch |-> FALSE,
               help |-> FALSE, bad |-> FALSE]
    /\ pc = "store"
    /\ exit_code = <<>>
    /\ steps = <<>>
    /\ major = 0 /\ minor = 0 /\ patch = 0
    /\ old_version = <<>>
    /\ new_version = <<>>
    /\ current_branch = <<>>
    /\ result = NoResult
    /\ returned = NoResult
    /\ out = <<>>
    /\ run = 1
    /\ version_file \in Files
    /\ qtlogger_h = version_file
    /\ HEAD = [ref |-> MainBranch, commit |-> 1]
    /\ branches = (MainBranch :> 1)
    /\ tags = << >>
    /\ index = [version_file |-> version_file, qtlogger_h |-> qtlogger_h]
    /\ commits = << [parent |-> 0, version_file |-> version_file,
                     qtlogger_h |-> qtlogger_h, message |-> <<"init">>] >>

\* write_version(a, b, c) followed by the print of line 99.
StoreWrite ==
    /\ pc = "store"
    /\ Len(steps) < MaxStoreOps
    /\ \E a \in StoreValues, b \in StoreValues, c \in StoreValues :
        /\ version_file' = RewriteVersion(version_file, a, b, c)
        /\ major' = a /\ minor' = b /\ patch' = c
        /\ new_version' = FormatTriple(a, b, c)
        /\ out' = Append(out, <<"Updated version.h to ">> \o FormatTriple(a, b, c))
    /\ steps' = Append(steps, "write")
    /\ UNCHANGED <<argv, pc, exit_code, old_version, current_branch, result, returned, run,
                   qtlogger_h, repo>>

\* read_current_version(): the triple read, or none when it raises.
StoreRead ==
    /\ pc = "store"
    /\ Len(steps) < MaxStoreOps
    /\ LET v == ParseVersion(version_file)
       IN  old_version' = IF v.ok THEN <<v.major, v.minor, v.patch>> ELSE <<>>
    /\ steps' = Append(steps, "read")
    /\ UNCHANGED <<argv, pc, exit_code, major, minor, patch, new_version,
                   current_branch, result, returned, out, run, files, repo>>

StoreNext ==
    \/ StoreWrite
    \/ StoreRead

StoreSpec == StoreInit /\ [][StoreNext]_vars

\* C12: writing the triple that was written last leaves the file content
\* exactly as the first of the two writes left it, whatever the content was.
C12_SecondWriteChangesNothing ==
    (/\ out # <<>>
     /\ steps' = Append(steps, "write")
     /\ out' = Append(out, out[Len(out)]))
        => version_file' = version_file

C12_Idempotent == [][C12_SecondWriteChangesNothing]_vars

C12_Witness ==
    /\ Len(steps) >= 2
    /\ steps[Len(steps)] = "write"
    /\ steps[Len(steps) - 1] = "write"
    /\ out[Len(out)] = out[Len(out) - 1]
    /\ Len(Matches(version_file, 1)) = 2
    /\ FirstCommit.version_file # version_file
    /\ major = 12

\* A command has been run and has exited nonzero.
CommandFailed == result.returncode # 0

\* C13 as stated: run_command hands the result of a command that exited
\* nonzero back to its caller.
C13_Original == CommandFailed => returned = result

\* C13 amended: run_command itself ends the process when the command exits
\* nonzero: it prints "Error: " with the captured stderr and exits with
\* status 1, and hands a result back to main only when the command exited
\* with 0.
C13_RunCommandExitsItself ==
    /\ returned.returncode = 0
    /\ CommandFailed =>
          /\ ~Running
          /\ exit_code = <<1>>
          /\ returned # result
          /\ out[Len(out)] = <<"Error: ">> \o result.stderr
    /\ (~CommandFailed /\ Running) => returned = result

C13_Witness ==
    /\ CommandFailed
    /\ pc = "commit"
    /\ returned.stdout = <<"o", "\n">>
    /\ result.returncode = 128

\* The step that has just started is the last of the process: the command
\* line of cmd and the error line are the last two lines printed, and the
\* process has ended with status 1 where it was.
HaltsRunning(cmd) ==
    /\ exit_code' = <<1>>
    /\ pc' = pc
    /\ Len(out') = Len(out) + 2
    /\ out'[Len(out') - 1] = <<"Running: ">> \o Join(cmd)
    /\ out'[Len(out')][1] = "Error: "

C14_BranchCollision ==
    (steps' = Append(steps, "branch") /\ BranchName(new_version) \in DOMAIN branches)
    => /\ HaltsRunning(CheckoutNewCmd(BranchName(new_version)))
       /\ UNCHANGED <<files, repo>>

C14_TagCollision ==
    (steps' = Append(steps, "tag") /\ TagName(new_version) \in DOMAIN tags)
    => /\ HaltsRunning(TagCmd(TagName(new_version)))
       /\ UNCHANGED <<files, repo>>

C14_NothingAfterHalt == exit_code # <<>> => UNCHANGED <<steps, out, files, repo>>

\* C14: when a branch (a tag) named v<new version> already exists, the
\* create-branch (tag) step runs its one command under that name, the command
\* fails, the process ends there with status 1 leaving the existing branch,
\* the existing tag, HEAD and the files as they were, and no step follows.
C14_NameCollision ==
    [][C14_BranchCollision /\ C14_TagCollision /\ C14_NothingAfterHalt]_vars

C14_Witness ==
    /\ FailedAt("tag")
    /\ TagName(new_version) = TakenName
    /\ tags = (TakenName :> 1)
    /\ branches[TakenName] = 2
    /\ steps[Len(steps)] = "tag"

C14_WitnessBranch ==
    /\ FailedAt("branch")
    /\ BranchName(new_version) = TakenName
    /\ TakenName \in DOMAIN branches
    /\ branches[TakenName] = 1
    /\ HEAD.ref = MainBranch
    /\ version_file # FirstCommit.version_file

\* The lines of out that announce a command.
RunningLines == {i \in 1..Len(out) : out[i][1] = "Running: "}

\* The line that announces the command run last.
LastRunning == CHOOSE i \in RunningLines : \A j \in RunningLines : j <= i

\* The steps that run an external command.
CommandSteps == {"query", "regen", "branch", "add", "commit", "tag", "checkout"}

\* C15 as stated: the captured stdout of the command run last is printed
\* after its command line, whether the command succeeded or failed.
C15_Original ==
    (RunningLines # {} /\ result.stdout # <<>>)
    => \E j \in (LastRunning + 1)..Len(out) : out[j] = result.stdout

\* C15 amended: every command started has its command line printed (before it
\* runs); the captured stdout is printed right after it only when the command
\* exited with 0 and the stdout is not empty; when the command exited nonzero
\* the only line after the command line is the error line with the captured
\* stderr, and the captured stdout is not printed.
C15_StdoutOnlyOnSuccess ==
    /\ Cardinality(RunningLines)
          = Cardinality({k \in 1..Len(steps) : steps[k] \in CommandSteps})
    /\ RunningLines # {} =>
          /\ (result.returncode = 0 /\ result.stdout # <<>>)
                => out[LastRunning + 1] = result.stdout
          /\ result.returncode # 0
                => /\ Len(out) = LastRunning + 1
                   /\ out[Len(out)] = <<"Error: ">> \o result.stderr

C15_Witness ==
    /\ pc = "tag"
    /\ result.returncode # 0
    /\ result.stdout = <<"o", "\n">>
    /\ returned.stdout = <<"o", "\n">>
    /\ out[Len(out) - 2] = <<"Committed with message: ">>
                              \o CommitMessage(new_version)
    /\ out[Len(out) - 3] = <<"o", "\n">>

\* The write step has been started.
WriteStarted == \E k \in 1..Len(steps) : steps[k] = "write"

\* C16: the version file is written only after the flags were accepted, the
\* version was read and the current branch was obtained; when the query of
\* the current branch exits nonzero the process ends with status 1, the
\* version file still holds the version read, and no branch, commit or tag has
\* been created.
C16_WriteAfterQuery ==
    /\ (WriteStarted \/ version_file # FirstCommit.version_file)
          => /\ OptionsCount(argv) = 1
             /\ old_version # <<>>
             /\ current_branch # <<>>
             /\ \E i \in 1..Len(out) : out[i] = <<"Current branch: ">> \o current_branch
             /\ SubSeq(steps, 1, 5) = <<"parse", "read", "compute", "query", "write">>
    /\ FailedAt("query")
          => /\ exit_code = <<1>>
             /\ ~WriteStarted
             /\ FilesUntouched
             /\ ParseVersion(version_file).ok
             /\ <<ParseVersion(version_file).major, ParseVersion(version_file).minor,
                  ParseVersion(version_file).patch>> = old_version
             /\ RepoUntouched
             /\ DOMAIN branches \subseteq {MainBranch, TakenName}
             /\ BranchName(new_version) \in DOMAIN branches
                   => BranchName(new_version) = TakenName

C16_Witness ==
    /\ FailedAt("query")
    /\ result.stderr = <<"e", "\n">>
    /\ new_version = FormatTriple(0, 10, 0)
    /\ old_version = <<0, 9, 1>>
    /\ version_file = FirstCommit.version_file

\* The restore step has been started.
RestoreAttempted == \E k \in 1..Len(steps) : steps[k] = "checkout"

\* C17: when the process ends in stage, commit, tag or checkout-original after
\* create-branch succeeded, the repository is left checked out on the branch
\* v<new version>, not on the original checkout; the restore step is started
\* only when every step before it has succeeded.
C17_HaltsOnNewBranch ==
    /\ \A k \in {"add", "commit", "tag", "checkout"} :
          FailedAt(k)
          => /\ exit_code = <<1>>
             /\ HEAD.ref = BranchName(new_version)
             /\ HEAD.ref # current_branch
             /\ HEAD.ref # MainBranch
             /\ ~OnOriginalCheckout
             /\ branches[BranchName(new_version)] = HEAD.commit
             /\ HEAD.commit = IF k \in {"add", "commit"} THEN 1 ELSE 2
    /\ RestoreAttempted
          => /\ steps = SubSeq(StepOrder, 1, Len(steps))
             /\ Len(commits) = 2
             /\ commits[2].message = CommitMessage(new_version)
             /\ branches[BranchName(new_version)] = 2
             /\ TagName(new_version) \in DOMAIN tags
             /\ tags[TagName(new_version)] = 2
    /\ (\E i \in 1..Len(out) : out[i] = <<"Running: ">> \o Join(CheckoutCmd(current_branch)))
          => RestoreAttempted

C17_Witness ==
    /\ FailedAt("commit")
    /\ HEAD = [ref |-> TakenName, commit |-> 1]
    /\ current_branch = MainBranch
    /\ index.version_file = version_file
    /\ version_file # FirstCommit.version_file
    /\ tags = (TakenName :> 1)

C17_WitnessRestore ==
    /\ FailedAt("checkout")
    /\ HEAD = [ref |-> BranchName(new_version), commit |-> 2]
    /\ current_branch = MainBranch
    /\ result.returncode = 128

(***************************************************************************)
(* The script run again                                                    *)
(***************************************************************************)

MaxRuns == 2

\* The script is started again with the same command line once a run has ended
\* at the end of main: a new process, the same files and repository.
Rerun ==
    /\ pc = "done"
    /\ run < MaxRuns
    /\ run' = run + 1
    /\ pc' = "parse"
    /\ exit_code' = <<>>
    /\ steps' = <<>>
    /\ major' = 0 /\ minor' = 0 /\ patch' = 0
    /\ old_version' = <<>>
    /\ new_version' = <<>>
    /\ current_branch' = <<>>
    /\ result' = NoResult
    /\ returned' = NoResult
    /\ out' = <<>>
    /\ UNCHANGED <<argv, files, repo>>

NextRerun == Next \/ Rerun

SpecRerun == Init /\ [][NextRerun]_vars

\* The names of the branches and of the tags that point at commit c.
BranchesAt(c) == {b \in DOMAIN branches : branches[b] = c}
TagsAt(c) == {t \in DOMAIN tags : tags[t] = c}

\* The triple in the text, as ParseVersion finds it.
TripleIn(text) ==
    LET v == ParseVersion(text) IN <<v.major, v.minor, v.patch>>

\* The first run has ended at the end of main, started on the branch main.
C18_FirstRunDone ==
    (run = 1 /\ pc = "done" /\ current_branch = MainBranch)
    => /\ Len(commits) = 2
       /\ commits[2].parent = 1
       /\ commits[2].message = CommitMessage(new_version)
       /\ TripleIn(commits[2].version_file) = <<major, minor, patch>>
       /\ BranchesAt(2) = {BranchName(new_version)}
       /\ TagsAt(2) = {TagName(new_version)}
       /\ branches[MainBranch] = 1
       /\ HEAD = [ref |-> MainBranch, commit |-> 1]
       /\ version_file = commits[1].version_file
       /\ qtlogger_h = commits[1].qtlogger_h
       /\ TripleIn(version_file) = old_version
       /\ old_version # <<major, minor, patch>>

\* The second run, started on the branch main where the first run ended.
C18_SecondRun ==
    (run = 2 /\ HEAD.ref = MainBranch)
    => /\ old_version # <<>> => old_version = TripleIn(commits[1].version_file)
       /\ new_version # <<>> => CommitMessage(new_version) = commits[2].message
       /\ ~Passed("branch")
       /\ pc = "branch"
             => /\ version_file = commits[2].version_file
                /\ version_file # commits[1].version_file
                /\ TripleIn(version_file) = <<major, minor, patch>>
       /\ (pc = "branch" /\ ~Running)
             => /\ exit_code = <<1>>
                /\ steps = SubSeq(StepOrder, 1, 7)
                /\ out[Len(out) - 1] = <<"Running: ">>
                       \o Join(CheckoutNewCmd(BranchName(new_version)))
       /\ Len(commits) = 2
       /\ HEAD.commit = 1
       /\ BranchesAt(2) = {BranchName(FormatTriple(TripleIn(commits[2].version_file)[1],
                                                     TripleIn(commits[2].version_file)[2],
                                                     TripleIn(commits[2].version_file)[3]))}

\* C18: when a run started on a branch ends at the end of main, the bump
\* commit is pointed at by the new branch and the new tag only, the original
\* branch is where it was, and the version file of the working tree holds the
\* version read; the script run again with the same flag then reads and
\* computes the same versions, rewrites the version file and, once it starts
\* create-branch, ends there with status 1 on the existing name.
C18_RepeatedRun == C18_FirstRunDone /\ C18_SecondRun

C18_Witness ==
    /\ run = 2
    /\ HEAD = [ref |-> MainBranch, commit |-> 1]
    /\ FailedAt("branch")
    /\ steps[Len(steps)] = "branch"
    /\ Len(commits) = 2
    /\ version_file = commits[2].version_file
    /\ commits[2].message = CommitMessage(new_version)
    /\ argv.minor

\* C19 as stated: once the new version is computed the workflow still holds
\* the triple read from the version file.
C19_Original == Passed("compute") => <<major, minor, patch>> = old_version

\* C19 amended: the triple read is held in the locals major, minor and patch
\* until the new version is computed; computing overwrites these locals, so
\* from then on they hold the new triple, new_version is its text, and the
\* triple read survives only in the line "Current version: ..." already
\* printed.
C19_OverwrittenInPlace ==
    /\ pc = "compute" => <<major, minor, patch>> = old_version
    /\ Passed("compute")
          => /\ <<major, minor, patch>> # old_version
             /\ new_version = FormatTriple(major, minor, patch)
             /\ out[1] = <<"Current version: ">>
                            \o FormatTriple(old_version[1], old_version[2], old_version[3])
             /\ out[2] = <<"New version: ">> \o new_version
             /\ out[2] # <<"New version: ">>
                            \o FormatTriple(old_version[1], old_version[2], old_version[3])

C19_Witness ==
    /\ pc = "report"
    /\ old_version = <<1, 1, 9>>
    /\ <<major, minor, patch>> = <<1, 1, 10>>
    /\ new_version = <<"1", ".", "1", ".", "1", "0">>
====
